---- MODULE Spec2Model ----
(***************************************************************************)
(* A model of har_agent.py: the KnowledgeBase (the SQLite store and its    *)
(* upsert / query / feedback methods) and the HARAgent built on it (the    *)
(* analysis run, enrichment, classification and canonicalisation).         *)
(*                                                                         *)
(* Representation.                                                         *)
(*  - A Python str is a sequence of one-character strings, so that the     *)
(*    regular expressions and the `in` tests of the source are computed    *)
(*    character by character.                                              *)
(*  - A REAL column holding a confidence or a risk is an integer number of *)
(*    hundredths (0.05 is 5, 1.0 is 100).  The rounding of IEEE doubles is *)
(*    not modelled.  A stability score is the exact fraction               *)
(*    num / (10 * 2^exp).                                                  *)
(*  - A table is the sequence of its rows in rowid order; the column id    *)
(*    (INTEGER PRIMARY KEY AUTOINCREMENT) is the position of the row, no   *)
(*    statement of the program deletes a row.                              *)
(*  - datetime.now() is the integer clock `now`.                           *)
(***************************************************************************)
EXTENDS Integers, Sequences, FiniteSets, TLC

VARIABLES
    patterns,          \* table patterns          (har_agent.py 72-83)
    endpoints,         \* table endpoints         (har_agent.py 86-100)
    analysis_history,  \* table analysis_history  (har_agent.py 103-113)
    feedback,          \* table feedback          (har_agent.py 116-125)
    now,               \* the clock read by datetime.now()
    call,              \* the call made by the last step: its name, arguments, result
    ncalls,            \* the number of calls made so far
    run                \* the analysis run in progress (locals of analyze_har)

vars == <<patterns, endpoints, analysis_history, feedback, now, call, ncalls, run>>

(***************************************************************************)
(* Strings                                                                 *)
(***************************************************************************)
Digit == {"0", "1", "2", "3", "4", "5", "6", "7", "8", "9"}

\* the character class [0-9a-f] of the UUID expression
HexLower == Digit \cup {"a", "b", "c", "d", "e", "f"}

\* hexadecimal digits in either case (what "hexadecimal" means in general)
HexAny == HexLower \cup {"A", "B", "C", "D", "E", "F"}

UuidPlaceholder == <<"{","u","u","i","d","}">>

IdPlaceholder == <<"{","i","d","}">>

\* sub occurs in s at position i
OccursAt(sub, s, i) ==
    /\ i >= 1
    /\ i + Len(sub) - 1 <= Len(s)
    /\ \A k \in 1..Len(sub) : s[i + k - 1] = sub[k]

\* Python: sub in s
Contains(s, sub) == \E i \in 1..(Len(s) + 1) : OccursAt(sub, s, i)

\* [class]{8}-[class]{4}-[class]{4}-[class]{4}-[class]{12} matches s at position i
UuidShapeAt(s, i, class) ==
    /\ i + 35 <= Len(s)
    /\ \A k \in 0..35 :
         IF k \in {8, 13, 18, 23} THEN s[i + k] = "-" ELSE s[i + k] \in class

\* the concatenation of the sequences pieces[lo], ..., pieces[hi]
RECURSIVE Flatten(_, _, _)
Flatten(pieces, lo, hi) ==
    IF lo > hi THEN <<>>
    ELSE IF lo = hi THEN pieces[lo]
    ELSE LET mid == (lo + hi) \div 2
         IN  Flatten(pieces, lo, mid) \o Flatten(pieces, mid + 1, hi)

\* the starts of the matches of the UUID expression over `class` in s from
\* position i on: re.sub takes the leftmost match, then goes on behind it
RECURSIVE UuidMatches(_, _, _)
UuidMatches(s, i, class) ==
    LET found == {j \in i..Len(s) : UuidShapeAt(s, j, class)}
    IN  IF found = {} THEN {}
        ELSE LET j == CHOOSE x \in found : \A y \in found : x <= y
             IN  {j} \cup UuidMatches(s, j + 36, class)

\* re.sub(UUID expression over `class`, '{uuid}', s)
SubUuid(s, class) ==
    LET starts == UuidMatches(s, 1, class)
        pieces == [i \in DOMAIN s |->
                     IF i \in starts THEN UuidPlaceholder
                     ELSE IF \E j \in starts : j < i /\ i <= j + 35 THEN <<>>
                     ELSE <<s[i]>>]
    IN  Flatten(pieces, 1, Len(s))

\* re.sub(r'\d+', '{id}', s): every maximal run of digits is one match
SubDigits(s) ==
    LET pieces == [i \in DOMAIN s |->
                     IF s[i] \notin Digit THEN <<s[i]>>
                     ELSE IF i = 1 \/ s[i - 1] \notin Digit THEN IdPlaceholder
                     ELSE <<>>]
    IN  Flatten(pieces, 1, Len(s))

\* HARAgent._extract_pattern
_extract_pattern(path) == SubDigits(SubUuid(path, HexLower))

(***************************************************************************)
(* Classification                                                          *)
(***************************************************************************)
SseSeg == <<"/","s","s","e","/">>
RestSeg == <<"/","r","e","s","t","/">>
RealtimeSeg == <<"/","r","e","a","l","t","i","m","e","/">>
ThreadsSeg == <<"/","t","h","r","e","a","d","s","/">>
AuthSeg == <<"/","a","u","t","h","/">>
LoginSeg == <<"/","l","o","g","i","n">>

\* _detect_category with the REST test before the SSE test
_detect_category_rest_first(path) ==
    IF Contains(path, RestSeg) THEN "REST"
    ELSE IF Contains(path, SseSeg) THEN "SSE"
    ELSE IF Contains(path, RealtimeSeg) THEN "Realtime"
    ELSE IF Contains(path, ThreadsSeg) THEN "Threads"
    ELSE IF Contains(path, AuthSeg) \/ Contains(path, LoginSeg) THEN "Auth"
    ELSE "Other"

\* HARAgent._detect_category
_detect_category(path) ==
    IF Contains(path, SseSeg) THEN "SSE"
    ELSE IF Contains(path, RestSeg) THEN "REST"
    ELSE IF Contains(path, RealtimeSeg) THEN "Realtime"
    ELSE IF Contains(path, ThreadsSeg) THEN "Threads"
    ELSE IF Contains(path, AuthSeg) \/ Contains(path, LoginSeg) THEN "Auth"
    ELSE "Other"

CreateSeg == <<"/","c","r","e","a","t","e">>
AddSeg == <<"/","a","d","d">>
UpdateSeg == <<"/","u","p","d","a","t","e">>
EditSeg == <<"/","e","d","i","t">>
DeleteSeg == <<"/","d","e","l","e","t","e">>
RemoveSeg == <<"/","r","e","m","o","v","e">>

\* _infer_method with the PUT test before the POST test
_infer_method_put_first(path) ==
    IF Contains(path, UpdateSeg) \/ Contains(path, EditSeg) THEN "PUT"
    ELSE IF Contains(path, CreateSeg) \/ Contains(path, AddSeg) THEN "POST"
    ELSE IF Contains(path, DeleteSeg) \/ Contains(path, RemoveSeg) THEN "DELETE"
    ELSE "GET"

\* HARAgent._infer_method
_infer_method(path) ==
    IF Contains(path, CreateSeg) \/ Contains(path, AddSeg) THEN "POST"
    ELSE IF Contains(path, UpdateSeg) \/ Contains(path, EditSeg) THEN "PUT"
    ELSE IF Contains(path, DeleteSeg) \/ Contains(path, RemoveSeg) THEN "DELETE"
    ELSE "GET"

(***************************************************************************)
(* Numbers                                                                 *)
(***************************************************************************)
Min(a, b) == IF a <= b THEN a ELSE b

Max(a, b) == IF a >= b THEN a ELSE b

RECURSIVE Pow2(_)
Pow2(n) == IF n = 0 THEN 1 ELSE 2 * Pow2(n - 1)

\* the fraction num / (10 * 2^exp) in lowest exponent
RECURSIVE Normalise(_)
Normalise(s) ==
    IF s.exp > 0 /\ s.num % 2 = 0
    THEN Normalise([num |-> s.num \div 2, exp |-> s.exp - 1])
    ELSE s

\* s as a number of units 1 / (10 * 2^e), for e >= s.exp
Scaled(s, e) == s.num * Pow2(e - s.exp)

\* (a + b) / 2 on stability scores
Average(a, b) ==
    LET e == Max(a.exp, b.exp)
    IN  Normalise([num |-> Scaled(a, e) + Scaled(b, e), exp |-> e + 1])

\* 1.0 as a confidence: the bound of MIN(1.0, ...)
One == 100

\* confidence + 0.05 on a pattern conflict
PatternBoost == 5

\* confidence + 0.03 on an endpoint conflict
EndpointBoost == 3

\* confidence + 0.1 on feedback 'correct'
CorrectBoost == 10

\* confidence - 0.2 on feedback 'false_positive'
FalsePositivePenalty == 20

(***************************************************************************)
(* KnowledgeBase: the tables and the statements run on them                *)
(***************************************************************************)
\* the rowids of the rows of tbl whose column `key` equals v
RowsWith(tbl, key, v) == {i \in DOMAIN tbl : tbl[i][key] = v}

\* learn_pattern without the UNIQUE constraint: every call inserts a row
learn_pattern_always_insert(tbl, p) == Append(tbl, p)

\* learn_pattern without MIN(1.0, ...)
learn_pattern_unclamped(tbl, p) ==
    IF RowsWith(tbl, "pattern", p.pattern) = {}
    THEN Append(tbl, p)
    ELSE [i \in DOMAIN tbl |->
            IF tbl[i].pattern = p.pattern
            THEN [tbl[i] EXCEPT !.last_seen = p.last_seen,
                                !.occurrence_count = @ + 1,
                                !.confidence = @ + PatternBoost,
                                !.sources = p.sources]
            ELSE tbl[i]]

\* KnowledgeBase.learn_pattern:
\* INSERT INTO patterns ... ON CONFLICT(pattern) DO UPDATE SET ...
learn_pattern(tbl, p) ==
    IF RowsWith(tbl, "pattern", p.pattern) = {}
    THEN Append(tbl, p)
    ELSE [i \in DOMAIN tbl |->
            IF tbl[i].pattern = p.pattern
            THEN [tbl[i] EXCEPT !.last_seen = p.last_seen,
                                !.occurrence_count = @ + 1,
                                !.confidence = Min(One, @ + PatternBoost),
                                !.sources = p.sources]
            ELSE tbl[i]]

\* learn_endpoint that keeps the stored version_history on a conflict
learn_endpoint_keeps_history(tbl, e) ==
    IF RowsWith(tbl, "path", e.path) = {}
    THEN Append(tbl, e)
    ELSE [i \in DOMAIN tbl |->
            IF tbl[i].path = e.path
            THEN [tbl[i] EXCEPT !.last_seen = e.last_seen,
                                !.confidence = Min(One, @ + EndpointBoost),
                                !.stability_score = Average(@, e.stability_score)]
            ELSE tbl[i]]

\* learn_endpoint as INSERT OR REPLACE: on a conflict the incoming row takes
\* the place of the stored one
learn_endpoint_replaces(tbl, e) ==
    IF RowsWith(tbl, "path", e.path) = {}
    THEN Append(tbl, e)
    ELSE [i \in DOMAIN tbl |-> IF tbl[i].path = e.path THEN e ELSE tbl[i]]

\* learn_endpoint with deprecation_risk = excluded.deprecation_risk in its
\* DO UPDATE SET
learn_endpoint_updates_risk(tbl, e) ==
    IF RowsWith(tbl, "path", e.path) = {}
    THEN Append(tbl, e)
    ELSE [i \in DOMAIN tbl |->
            IF tbl[i].path = e.path
            THEN [tbl[i] EXCEPT !.last_seen = e.last_seen,
                                !.confidence = Min(One, @ + EndpointBoost),
                                !.stability_score = Average(@, e.stability_score),
                                !.version_history = e.version_history,
                                !.deprecation_risk = e.deprecation_risk]
            ELSE tbl[i]]

\* KnowledgeBase.learn_endpoint:
\* INSERT INTO endpoints ... ON CONFLICT(path) DO UPDATE SET ...
learn_endpoint(tbl, e) ==
    IF RowsWith(tbl, "path", e.path) = {}
    THEN Append(tbl, e)
    ELSE [i \in DOMAIN tbl |->
            IF tbl[i].path = e.path
            THEN [tbl[i] EXCEPT !.last_seen = e.last_seen,
                                !.confidence = Min(One, @ + EndpointBoost),
                                !.stability_score = Average(@, e.stability_score),
                                !.version_history = e.version_history]
            ELSE tbl[i]]

\* the UPDATE of add_feedback without MAX(0.0, ...)
feedback_confidence_unfloored(c, feedback_type) ==
    IF feedback_type = "correct" THEN Min(One, c + CorrectBoost)
    ELSE IF feedback_type = "false_positive" THEN c - FalsePositivePenalty
    ELSE c

\* the UPDATE of add_feedback with 'missed' treated as 'false_positive'
feedback_confidence_missed_penalised(c, feedback_type) ==
    IF feedback_type = "correct" THEN Min(One, c + CorrectBoost)
    ELSE Max(0, c - FalsePositivePenalty)

\* add_feedback: the UPDATE of the endpoint's confidence
feedback_confidence(c, feedback_type) ==
    IF feedback_type = "correct" THEN Min(One, c + CorrectBoost)
    ELSE IF feedback_type = "false_positive" THEN Max(0, c - FalsePositivePenalty)
    ELSE c

\* add_feedback without the test `if result:`: a row is written for any path
add_feedback_unchecked(eps, fb, endpoint_path, feedback_type, comment, t) ==
    <<eps, Append(fb, [endpoint_id |-> 0, feedback_type |-> feedback_type,
                       comment |-> comment, created_at |-> t])>>

\* add_feedback: the tables <<endpoints, feedback>> after the call at time t
add_feedback(eps, fb, endpoint_path, feedback_type, comment, t) ==
    LET found == RowsWith(eps, "path", endpoint_path)
    IN  IF found = {}
        THEN <<eps, fb>>
        ELSE LET endpoint_id == CHOOSE i \in found : \A j \in found : i <= j
             IN  << [eps EXCEPT ![endpoint_id].confidence =
                                    feedback_confidence(@, feedback_type)],
                    Append(fb, [endpoint_id |-> endpoint_id,
                                feedback_type |-> feedback_type,
                                comment |-> comment,
                                created_at |-> t]) >>

(***************************************************************************)
(* The KnowledgeBase called directly: SpecKB                               *)
(* Every public method is called with arguments drawn from small sets of   *)
(* values in their documented ranges; the clock advances with every call.  *)
(***************************************************************************)
\* the bound on the number of calls of a behaviour of SpecKB
MaxCalls == 3

PathUser == <<"/","r","e","s","t","/","u","s","e","r">>

PathUserId == <<"/","r","e","s","t","/","u","s","e","r","/","4","2">>

PathUnknown == <<"/","n","o","n","e">>

KBPaths == {PathUser, PathUserId}

\* confidences passed in: 0.05, 0.75, 0.99
ConfInputs == {5, 75, 99}

\* the Pattern objects passed to learn_pattern at time t: built as
\* _learn_from_analysis builds them, and one that a caller has classified
\* otherwise
PatternsAt(t) ==
    { [pattern |-> _extract_pattern(p), category |-> _detect_category(p),
       confidence |-> c, first_seen |-> t, last_seen |-> t,
       occurrence_count |-> 1,
       sources |-> IF c > 50 THEN <<"h1">> ELSE <<>>] :
      p \in KBPaths, c \in {50, 98, 100} }
    \cup
    { [pattern |-> PathUser, category |-> "Other", confidence |-> 75,
       first_seen |-> t, last_seen |-> t, occurrence_count |-> 1,
       sources |-> <<>>] }

\* the APIEndpointIntel objects passed to learn_endpoint at time t: built as
\* _enrich_endpoint builds them, and one that a caller has classified otherwise
EndpointsAt(t) ==
    { [path |-> p, method |-> _infer_method(p), category |-> _detect_category(p),
       confidence |-> c,
       stability_score |-> [num |-> n, exp |-> 0],
       first_discovered |-> t, last_seen |-> t,
       version_history |-> IF n = 10 THEN <<>> ELSE <<"v1">>,
       deprecation_risk |-> IF c > 80 THEN 10 ELSE 30,
       related_endpoints |-> <<>>] :
      p \in KBPaths, c \in ConfInputs, n \in {3, 10} }
    \cup
    { [path |-> PathUser, method |-> "POST", category |-> "Other",
       confidence |-> 75, stability_score |-> [num |-> 10, exp |-> 0],
       first_discovered |-> t, last_seen |-> t, version_history |-> <<>>,
       deprecation_risk |-> 30, related_endpoints |-> <<PathUserId>>] }

\* the objects built at time 0, computed once
PatternsAtZero == PatternsAt(0)

EndpointsAtZero == EndpointsAt(0)

\* the objects passed in at the time of the call
PatternInputs ==
    {[p EXCEPT !.first_seen = now, !.last_seen = now] : p \in PatternsAtZero}

EndpointInputs ==
    {[e EXCEPT !.first_discovered = now, !.last_seen = now] : e \in EndpointsAtZero}

FeedbackTypes == {"correct", "false_positive", "missed"}

\* the days that pass from one call to the next
Elapsed == {20}

NoRun == [pc |-> "idle"]

InitKB ==
    /\ patterns = <<>>
    /\ endpoints = <<>>
    /\ analysis_history = <<>>
    /\ feedback = <<>>
    /\ now = 0
    /\ call = [op |-> "init"]
    /\ ncalls = 0
    /\ run = NoRun

LearnPatternCall ==
    /\ ncalls < MaxCalls
    /\ \E p \in PatternInputs :
         /\ patterns' = learn_pattern(patterns, p)
         /\ call' = [op |-> "learn_pattern", pattern |-> p]
    /\ ncalls' = ncalls + 1
    /\ now' \in {now + d : d \in Elapsed}
    /\ UNCHANGED <<endpoints, analysis_history, feedback, run>>

LearnEndpointCall ==
    /\ ncalls < MaxCalls
    /\ \E e \in EndpointInputs :
         /\ endpoints' = learn_endpoint(endpoints, e)
         /\ call' = [op |-> "learn_endpoint", endpoint |-> e]
    /\ ncalls' = ncalls + 1
    /\ now' \in {now + d : d \in Elapsed}
    /\ UNCHANGED <<patterns, analysis_history, feedback, run>>

AddFeedbackCall ==
    /\ ncalls < MaxCalls
    /\ \E p \in KBPaths \cup {PathUnknown}, k \in FeedbackTypes :
         LET r == add_feedback(endpoints, feedback, p, k, <<>>, now)
         IN  /\ endpoints' = r[1]
             /\ feedback' = r[2]
             /\ call' = [op |-> "add_feedback", endpoint_path |-> p,
                         feedback_type |-> k]
    /\ ncalls' = ncalls + 1
    /\ now' \in {now + d : d \in Elapsed}
    /\ UNCHANGED <<patterns, analysis_history, run>>

(***************************************************************************)
(* Queries                                                                 *)
(***************************************************************************)
\* the lists a SELECT can return before its ORDER BY is applied: the rows
\* `rows` of tbl, each once, in any order
Selections(tbl, rows) ==
    LET n == Cardinality(rows)
        perms == {f \in [1..n -> rows] : \A a, b \in 1..n : a # b => f[a] # f[b]}
    IN  {[k \in 1..n |-> tbl[f[k]]] : f \in perms}

\* ORDER BY confidence DESC alone
ConfidenceDescendingOnly(a, b) == a.confidence >= b.confidence

\* ORDER BY confidence DESC, occurrence_count DESC
ConfidenceDescending(a, b) ==
    \/ a.confidence > b.confidence
    \/ a.confidence = b.confidence /\ a.occurrence_count >= b.occurrence_count

\* get_learned_patterns: the lists the query can return (SQLite leaves the
\* order of rows that compare equal unspecified)
get_learned_patterns(tbl, min_confidence) ==
    {q \in Selections(tbl, {i \in DOMAIN tbl : tbl[i].confidence >= min_confidence}) :
        \A k \in 1..(Len(q) - 1) : ConfidenceDescending(q[k], q[k + 1])}

\* no ORDER BY
RiskAnyOrder(a, b) == TRUE

\* ORDER BY deprecation_risk DESC
RiskDescending(a, b) == a.deprecation_risk >= b.deprecation_risk

\* detect_deprecations at time t: the lists the query can return
detect_deprecations(tbl, t, days_threshold) ==
    {q \in Selections(tbl, {i \in DOMAIN tbl : tbl[i].last_seen < t - days_threshold}) :
        \A k \in 1..(Len(q) - 1) : RiskDescending(q[k], q[k + 1])}

(***************************************************************************)
(* HARAgent: enrichment                                                    *)
(***************************************************************************)
\* the expression t, read as a regular expression, matches s at position i.
\* The characters of the paths of this model are letters, digits and
\* / - _ { } . $ : in a template `.` matches any character, `$` matches the
\* empty string at the end of s, and a brace that opens no valid repetition
\* ({id}, {uuid}, {{) stands for itself, as does every other character.
RegexMatchesAt(t, s, i) ==
    \A k \in DOMAIN t :
        LET at == i + Cardinality({m \in 1..(k - 1) : t[m] # "$"})
        IN  IF t[k] = "$" THEN at = Len(s) + 1
            ELSE at <= Len(s) /\ (t[k] = "." \/ t[k] = s[at])

\* re.search(t, s) is not None
re_search(t, s) == \E i \in 1..(Len(s) + 1) : RegexMatchesAt(t, s, i)

\* confidence = 0.5  # default
DefaultConfidence == 50

\* the loop of _enrich_endpoint without its break: the last match decides
RECURSIVE ScanPatternsNoBreak(_, _, _)
ScanPatternsNoBreak(learned_patterns, i, path) ==
    IF i > Len(learned_patterns) THEN DefaultConfidence
    ELSE LET later == ScanPatternsNoBreak(learned_patterns, i + 1, path)
         IN  IF later = DefaultConfidence /\ re_search(learned_patterns[i].pattern, path)
             THEN Max(DefaultConfidence, learned_patterns[i].confidence)
             ELSE later

\* the loop of _enrich_endpoint started from confidence = 0.0: a path that no
\* pattern matches gets 0
RECURSIVE ScanPatternsFromZero(_, _, _)
ScanPatternsFromZero(learned_patterns, i, path) ==
    IF i > Len(learned_patterns) THEN 0
    ELSE IF re_search(learned_patterns[i].pattern, path)
         THEN Max(DefaultConfidence, learned_patterns[i].confidence)
         ELSE ScanPatternsFromZero(learned_patterns, i + 1, path)

\* the loop of _enrich_endpoint over learned_patterns[i..]: the first pattern
\* that matches decides, then break
RECURSIVE ScanPatterns(_, _, _)
ScanPatterns(learned_patterns, i, path) ==
    IF i > Len(learned_patterns) THEN DefaultConfidence
    ELSE IF re_search(learned_patterns[i].pattern, path)
         THEN Max(DefaultConfidence, learned_patterns[i].confidence)
         ELSE ScanPatterns(learned_patterns, i + 1, path)

\* HARAgent._enrich_endpoint; nsources is len(set(s['hash'] for s in sources))
_enrich_endpoint(path, nsources, learned_patterns, t) ==
    LET confidence == ScanPatterns(learned_patterns, 1, path)
    IN  [path |-> path,
         method |-> _infer_method(path),
         category |-> _detect_category(path),
         confidence |-> confidence,
         stability_score |-> [num |-> Min(10, nsources), exp |-> 0],
         first_discovered |-> t,
         last_seen |-> t,
         version_history |-> <<>>,
         deprecation_risk |-> IF confidence > 80 THEN 10 ELSE 30,
         related_endpoints |-> <<>>]

TemplateOpen == <<"$","{">>

DoubleBrace == <<"{","{">>

\* len(ep.path) > 200
MaxPathLength == 200

\* HARAgent._detect_anomalies
RECURSIVE _detect_anomalies(_, _)
_detect_anomalies(eps, i) ==
    IF i > Len(eps) THEN <<>>
    ELSE (IF Len(eps[i].path) > MaxPathLength
          THEN << [type |-> "unusual_length", endpoint |-> eps[i].path,
                   severity |-> "medium"] >>
          ELSE <<>>)
         \o
         (IF Contains(eps[i].path, TemplateOpen) \/ Contains(eps[i].path, DoubleBrace)
          THEN << [type |-> "unresolved_template", endpoint |-> eps[i].path,
                   severity |-> "low"] >>
          ELSE <<>>)
         \o _detect_anomalies(eps, i + 1)

\* _assess_quality without max(0.0, min(1.0, score))
_assess_quality_unclamped(eps, new_discoveries, anomalies) ==
    LET n == Max(Len(eps), 1)
        IsHigh(e) == e.confidence > 80
        high_conf == Len(SelectSeq(eps, IsHigh))
    IN  [num |-> 100 * n - 5 * Len(anomalies) * n + 20 * high_conf, den |-> 100 * n]

\* HARAgent._assess_quality: the score as the fraction num / den
_assess_quality(eps, new_discoveries, anomalies) ==
    LET n == Max(Len(eps), 1)
        IsHigh(e) == e.confidence > 80
        high_conf == Len(SelectSeq(eps, IsHigh))
        score == 100 * n - 5 * Len(anomalies) * n + 20 * high_conf
    IN  [num |-> Max(0, Min(100 * n, score)), den |-> 100 * n]

(***************************************************************************)
(* HARAgent: learning and history.  db is the four tables.                 *)
(***************************************************************************)
\* the Pattern that _learn_from_analysis builds from an enriched endpoint
PatternOf(ep) ==
    [pattern |-> _extract_pattern(ep.path),
     category |-> ep.category,
     confidence |-> ep.confidence,
     first_seen |-> ep.first_discovered,
     last_seen |-> ep.last_seen,
     occurrence_count |-> 1,
     sources |-> <<>>]

\* one iteration of _learn_from_analysis if the endpoint were scored again,
\* against the patterns the store holds at that iteration
LearnOneRescored(db, ep) ==
    LET lp == CHOOSE q \in get_learned_patterns(db.patterns, 70) : TRUE
        again == [ep EXCEPT !.confidence = ScanPatterns(lp, 1, ep.path)]
    IN  [db EXCEPT !.endpoints = learn_endpoint(@, again),
                   !.patterns = learn_pattern(@, PatternOf(again))]

\* one iteration of the loop of _learn_from_analysis: two committed upserts
LearnOne(db, ep) ==
    [db EXCEPT !.endpoints = learn_endpoint(@, ep),
               !.patterns = learn_pattern(@, PatternOf(ep))]

\* HARAgent._learn_from_analysis, from the i-th endpoint on
RECURSIVE _learn_from_analysis(_, _, _)
_learn_from_analysis(db, eps, i) ==
    IF i > Len(eps) THEN db
    ELSE _learn_from_analysis(LearnOne(db, eps[i]), eps, i + 1)

\* _save_analysis_history as INSERT OR REPLACE into a one-row table
_save_analysis_history_replacing(tbl, har_file, js_count, endpoints_count, new_patterns, quality, t) ==
    << [har_file |-> har_file,
        analyzed_at |-> t,
        js_assets_count |-> js_count,
        endpoints_found |-> endpoints_count,
        new_patterns |-> new_patterns,
        quality_score |-> quality] >>

\* HARAgent._save_analysis_history
_save_analysis_history(tbl, har_file, js_count, endpoints_count, new_patterns, quality, t) ==
    Append(tbl, [har_file |-> har_file,
                 analyzed_at |-> t,
                 js_assets_count |-> js_count,
                 endpoints_found |-> endpoints_count,
                 new_patterns |-> new_patterns,
                 quality_score |-> quality])

RECURSIVE Gcd(_, _)
Gcd(a, b) == IF b = 0 THEN a ELSE Gcd(b, a % b)

\* the fraction num / den in lowest terms
Reduce(f) ==
    LET g == Gcd(f.num, f.den)
    IN  [num |-> f.num \div g, den |-> f.den \div g]

\* the sum of the quality scores of history rows i.., as a fraction
RECURSIVE SumQuality(_, _)
SumQuality(tbl, i) ==
    IF i > Len(tbl) THEN [num |-> 0, den |-> 1]
    ELSE LET q == tbl[i].quality_score
             r == SumQuality(tbl, i + 1)
         IN  Reduce([num |-> q.num * r.den + r.num * q.den, den |-> q.den * r.den])

\* KnowledgeBase.get_stats
get_stats(db) ==
    LET IsHigh(r) == r.confidence >= 80
        total == SumQuality(db.analysis_history, 1)
    IN  [total_patterns |-> Len(db.patterns),
         high_confidence_patterns |-> Len(SelectSeq(db.patterns, IsHigh)),
         total_endpoints |-> Len(db.endpoints),
         high_confidence_endpoints |-> Len(SelectSeq(db.endpoints, IsHigh)),
         total_analyses |-> Len(db.analysis_history),
         avg_quality_score |->
             IF db.analysis_history = <<>> THEN [num |-> 0, den |-> 1]
             ELSE Reduce([num |-> total.num,
                          den |-> total.den * Len(db.analysis_history)])]

\* the enrichment loop of analyze_har over analyzer.api_endpoints.items()
EnrichAll(api_endpoints, learned_patterns, t) ==
    [k \in DOMAIN api_endpoints |->
        _enrich_endpoint(api_endpoints[k].path, api_endpoints[k].nsources,
                         learned_patterns, t)]

\* get_learned_patterns(min_confidence=0.7)
MinLearnedConfidence == 70

\* detect_deprecations(days_threshold=30)
DeprecationDays == 30

\* the lists of step 2 if it left out the patterns that match the path of an
\* endpoint with false_positive feedback
LearnedPatternListsVetted(db) ==
    LET Trusted(p) ==
            \A f \in DOMAIN db.feedback :
                \/ db.feedback[f].feedback_type # "false_positive"
                \/ db.feedback[f].endpoint_id \notin DOMAIN db.endpoints
                \/ ~re_search(p.pattern, db.endpoints[db.feedback[f].endpoint_id].path)
    IN  { SelectSeq(q, Trusted) :
            q \in get_learned_patterns(db.patterns, MinLearnedConfidence) }

\* learned_patterns = self.kb.get_learned_patterns(min_confidence=0.7): the
\* lists that step 2 of analyze_har can read from the store db
LearnedPatternLists(db) == get_learned_patterns(db.patterns, MinLearnedConfidence)

\* if intel.confidence < 0.5
NewDiscoveryThreshold == 50

IsNewDiscovery(e) == e.confidence < NewDiscoveryThreshold

\* analyze_har without the test `if learn:`
analyze_har_always_learning(db, har, learn, lp, t) ==
    LET eps == EnrichAll(har.api_endpoints, lp, t)
        new_discoveries == SelectSeq(eps, IsNewDiscovery)
        anomalies == _detect_anomalies(eps, 1)
        learned == _learn_from_analysis(db, eps, 1)
    IN  [learned EXCEPT !.analysis_history =
            _save_analysis_history(@, har.file, har.js_assets, Len(eps),
                                   Len(new_discoveries),
                                   _assess_quality(eps, new_discoveries, anomalies), t)]

\* analyze_har(har, learn) as one function of the tables, at time t, with the
\* rows of get_learned_patterns taken in the order lp
analyze_har(db, har, learn, lp, t) ==
    LET eps == EnrichAll(har.api_endpoints, lp, t)
        new_discoveries == SelectSeq(eps, IsNewDiscovery)
        anomalies == _detect_anomalies(eps, 1)
        learned == IF learn THEN _learn_from_analysis(db, eps, 1) ELSE db
    IN  [learned EXCEPT !.analysis_history =
            _save_analysis_history(@, har.file, har.js_assets, Len(eps),
                                   Len(new_discoveries),
                                   _assess_quality(eps, new_discoveries, anomalies), t)]

\* the four tables of the current state
Db ==
    [patterns |-> patterns, endpoints |-> endpoints,
     analysis_history |-> analysis_history, feedback |-> feedback]

\* the tables of a database file that was just created
EmptyDb ==
    [patterns |-> <<>>, endpoints |-> <<>>, analysis_history |-> <<>>, feedback |-> <<>>]

\* what the external HARAnalyzer hands over: the capture file, the number of
\* JS assets, and api_endpoints as the list of its items, every path observed
\* in n distinct sources
Har(file, paths, n) ==
    [file |-> file, js_assets |-> n,
     api_endpoints |-> [k \in DOMAIN paths |-> [path |-> paths[k], nsources |-> n]]]

(***************************************************************************)
(* SpecKB, continued: HARAgent.analyze_har called as a whole               *)
(***************************************************************************)
KBHars ==
    { Har("kb.har", q, 12) :
        q \in {<<PathUser>>, <<PathUserId>>, <<PathUser, PathUserId>>} }

AnalyzeCall ==
    /\ ncalls < MaxCalls
    /\ \E har \in KBHars, learn \in BOOLEAN, lp \in LearnedPatternLists(Db) :
         \E db \in {analyze_har(Db, har, learn, lp, now)} :
             /\ patterns' = db.patterns
             /\ endpoints' = db.endpoints
             /\ analysis_history' = db.analysis_history
             /\ call' = [op |-> "analyze_har", har |-> har, learn |-> learn,
                         learned_patterns |-> lp,
                         enriched_endpoints |-> EnrichAll(har.api_endpoints, lp, now)]
    /\ ncalls' = ncalls + 1
    /\ now' \in {now + d : d \in Elapsed}
    /\ UNCHANGED <<feedback, run>>

\* the thresholds passed to get_learned_patterns: that of export_learned_patterns,
\* the default, and 1.0
MinConfidenceInputs == {60, MinLearnedConfidence, One}

GetLearnedPatternsCall ==
    /\ ncalls < MaxCalls
    /\ \E m \in MinConfidenceInputs : \E q \in get_learned_patterns(patterns, m) :
         call' = [op |-> "get_learned_patterns", min_confidence |-> m, ret |-> q]
    /\ ncalls' = ncalls + 1
    /\ now' \in {now + d : d \in Elapsed}
    /\ UNCHANGED <<patterns, endpoints, analysis_history, feedback, run>>

\* the thresholds passed to detect_deprecations: none, the days between two
\* calls, and the default
DaysInputs == {0} \cup Elapsed \cup {DeprecationDays}

DetectDeprecationsCall ==
    /\ ncalls < MaxCalls
    /\ \E d \in DaysInputs : \E q \in detect_deprecations(endpoints, now, d) :
         call' = [op |-> "detect_deprecations", days_threshold |-> d, at |-> now,
                  ret |-> q]
    /\ ncalls' = ncalls + 1
    /\ now' \in {now + d : d \in Elapsed}
    /\ UNCHANGED <<patterns, endpoints, analysis_history, feedback, run>>

NextKB ==
    \/ LearnPatternCall
    \/ LearnEndpointCall
    \/ AddFeedbackCall
    \/ AnalyzeCall
    \/ GetLearnedPatternsCall
    \/ DetectDeprecationsCall

SpecKB == InitKB /\ [][NextKB]_vars

(***************************************************************************)
(* One process of the program: Spec                                        *)
(* main() runs one command: analyze, train, export or stats.  For analyze  *)
(* the process calls analyze_har once (main() passes learn=True, the       *)
(* method takes either).  The tables are those the connection sees;        *)
(* run.committed is what the database file holds.                          *)
(* The file holds what earlier processes stored: Init draws it from the    *)
(* stores that k1 earlier runs over PriorHarA followed by k2 earlier runs  *)
(* over PriorHarB leave behind, all made at day 0; the process starts at   *)
(* day 1 or at day 40.                                                     *)
(***************************************************************************)
\* the bound on the numbers k1 and k2 of earlier runs
MaxPrior == 6

\* the bound on the number of candidates of the capture of this process
MaxCands == 2

PathThread == <<"/","r","e","s","t","/","t","h","r","e","a","d">>

PathThreadCreate ==
    <<"/","r","e","s","t","/","t","h","r","e","a","d","/","c","r","e","a","t","e">>

PathThreadId == <<"/","r","e","s","t","/","t","h","r","e","a","d","/","4","2">>

AgentPaths == {PathThread, PathThreadCreate, PathThreadId}

PriorHarA == Har("a.har", <<PathThread>>, 12)

PriorHarB == Har("b.har", <<PathThread, PathThreadCreate, PathThreadId>>, 5)

\* k runs of analyze_har(har, learn=True) at time t, one after the other.
\* (Every run appends a history row, so the test on `after` is true: it makes
\* TLC compute the tables of a run before it goes on to the next.)
RECURSIVE RunTimes(_, _, _, _)
RunTimes(db, har, k, t) ==
    IF k = 0 THEN db
    ELSE LET lp == CHOOSE q \in LearnedPatternLists(db) : TRUE
             after == analyze_har(db, har, TRUE, lp, t)
         IN  IF Len(after.analysis_history) > Len(db.analysis_history)
             THEN RunTimes(after, har, k - 1, t)
             ELSE db

PriorStore(k1, k2) == RunTimes(RunTimes(EmptyDb, PriorHarA, k1, 0), PriorHarB, k2, 0)

\* the lists of at most n distinct paths
CandidateLists(n) ==
    UNION { {q \in [1..m -> AgentPaths] : \A a, b \in 1..m : a # b => q[a] # q[b]} :
            m \in 0..Min(n, Cardinality(AgentPaths)) }

HarInputs == { Har("capture.har", q, n) : q \in CandidateLists(MaxCands), n \in {5, 12} }

Init ==
    /\ \E k1 \in 0..MaxPrior, k2 \in 0..MaxPrior :
         LET db == PriorStore(k1, k2)
         IN  /\ patterns = db.patterns
             /\ endpoints = db.endpoints
             /\ analysis_history = db.analysis_history
             /\ feedback = db.feedback
    /\ now \in {1, 40}
    /\ call = [op |-> "init"]
    /\ ncalls = 0
    /\ run = NoRun

\* conn.commit() without effect
commit_skipped(view, committed) == committed

\* conn.commit() that leaves out the table endpoints
commit_without_endpoints(view, committed) == [view EXCEPT !.endpoints = committed.endpoints]

\* conn.commit(): what the database file holds after it, given the tables as
\* the connection sees them (view) and as they were last committed
commit(view, committed) == view

\* conn.close(): what the database file holds after it; changes that were not
\* committed are dropped
close(view, committed) == committed

\* main without try ... finally: the store is closed on a normal end only
ExitedWithoutFinally(command, status, opened) ==
    [pc |-> "exit", command |-> command, status |-> status, opened |-> opened,
     closed |-> opened /\ status = 0]

\* main: the process has ended with `status`; agent.close() runs in the
\* finally clause whenever HARAgent() was built
Exited(command, status, opened) ==
    [pc |-> "exit", command |-> command, status |-> status, opened |-> opened,
     closed |-> opened]

\* main, lines 617-625: no verb; sys.exit(1) before HARAgent() is built
UsageExit ==
    /\ run.pc = "idle"
    /\ run' = Exited("", 1, FALSE)
    /\ call' = [op |-> "main", argv |-> <<>>]
    /\ UNCHANGED <<patterns, endpoints, analysis_history, feedback, now, ncalls>>

\* main, lines 631-634: analyze without a file; sys.exit(1) inside the try
AnalyzeNoFile ==
    /\ run.pc = "idle"
    /\ run' = Exited("analyze", 1, TRUE)
    /\ call' = [op |-> "main", argv |-> <<"analyze">>]
    /\ UNCHANGED <<patterns, endpoints, analysis_history, feedback, now, ncalls>>

\* main, lines 657-658: a verb that is none of the four
UnknownVerb ==
    /\ run.pc = "idle"
    /\ \E verb \in {"help", "Analyze"} :
         /\ run' = Exited(verb, 0, TRUE)
         /\ call' = [op |-> "main", argv |-> <<verb>>]
    /\ UNCHANGED <<patterns, endpoints, analysis_history, feedback, now, ncalls>>

\* main, lines 651-655: stats
StatsCommand ==
    /\ run.pc = "idle"
    /\ run' = Exited("stats", 0, TRUE)
    /\ call' = [op |-> "get_stats", ret |-> get_stats(Db)]
    /\ UNCHANGED <<patterns, endpoints, analysis_history, feedback, now, ncalls>>

\* get_learned_patterns(min_confidence=0.6)
ExportMinConfidence == 60

\* main, lines 647-649, and export_learned_patterns
ExportCommand ==
    /\ run.pc = "idle"
    /\ \E q \in get_learned_patterns(patterns, ExportMinConfidence) :
         call' = [op |-> "export_learned_patterns",
                  export_data |-> [exported_at |-> now, total_patterns |-> Len(q),
                                   patterns |-> q, stats |-> get_stats(Db)]]
    /\ run' = Exited("export", 0, TRUE)
    /\ UNCHANGED <<patterns, endpoints, analysis_history, feedback, now, ncalls>>

\* analyze_har, lines 324-355: the reads of the store, enrichment, anomalies
AnalyzeStart ==
    /\ run.pc = "idle"
    /\ \E har \in HarInputs, learn \in BOOLEAN,
          lp \in LearnedPatternLists(Db),
          deprecated \in detect_deprecations(endpoints, now, DeprecationDays) :
         LET eps == EnrichAll(har.api_endpoints, lp, now)
         IN  /\ run' = [pc |-> "learn", har |-> har, learn |-> learn,
                        learned_patterns |-> lp,
                        enriched_endpoints |-> eps,
                        new_discoveries |-> SelectSeq(eps, IsNewDiscovery),
                        anomalies |-> _detect_anomalies(eps, 1),
                        deprecated |-> deprecated,
                        i |-> 1,
                        command |-> "analyze", status |-> 0, opened |-> TRUE,
                        closed |-> FALSE, committed |-> Db]
             /\ call' = [op |-> "analyze_har", har |-> har, learn |-> learn]
    /\ ncalls' = ncalls + 1
    /\ UNCHANGED <<patterns, endpoints, analysis_history, feedback, now>>

\* analyze_har, lines 358-360: one iteration of the loop of _learn_from_analysis
LearnStep ==
    /\ run.pc = "learn"
    /\ run.learn
    /\ run.i <= Len(run.enriched_endpoints)
    /\ LET db == LearnOne(Db, run.enriched_endpoints[run.i])
       IN  /\ patterns' = db.patterns
           /\ endpoints' = db.endpoints
           /\ run' = [run EXCEPT !.i = @ + 1, !.committed = commit(db, @)]
    /\ call' = [op |-> "_learn_from_analysis", endpoint |-> run.enriched_endpoints[run.i]]
    /\ UNCHANGED <<analysis_history, feedback, now, ncalls>>

\* one iteration of the loop of _learn_from_analysis in which a statement
\* raises (sqlite3.Error): in learn_endpoint, or in learn_pattern after
\* learn_endpoint has committed.  The exception leaves analyze_har and main;
\* the finally clause of main closes the store.
LearnFails ==
    /\ run.pc = "learn"
    /\ run.learn
    /\ run.i <= Len(run.enriched_endpoints)
    /\ \E raised_in \in {"learn_endpoint", "learn_pattern"} :
         LET ep == run.enriched_endpoints[run.i]
             view == IF raised_in = "learn_endpoint" THEN Db
                     ELSE [Db EXCEPT !.endpoints = learn_endpoint(@, ep)]
             committed == IF raised_in = "learn_endpoint" THEN run.committed
                          ELSE commit(view, run.committed)
             file == close(view, committed)
         IN  /\ patterns' = file.patterns
             /\ endpoints' = file.endpoints
             /\ analysis_history' = file.analysis_history
             /\ feedback' = file.feedback
             /\ run' = [run EXCEPT !.pc = "failed", !.status = 1, !.closed = TRUE,
                                   !.committed = committed]
             /\ call' = [op |-> "raise", raised_in |-> raised_in, endpoint |-> ep]
    /\ UNCHANGED <<now, ncalls>>

\* the report if the stale-endpoint query ran where the dictionary is built,
\* on the store after the learning step
reportQueriedLate(r, quality_score, view, t) ==
    LET deprecated == CHOOSE q \in detect_deprecations(view.endpoints, t, DeprecationDays) : TRUE
    IN  [op |-> "report",
         summary |-> [js_assets |-> r.har.js_assets,
                      endpoints_found |-> Len(r.enriched_endpoints),
                      new_discoveries |-> Len(r.new_discoveries),
                      anomalies |-> Len(r.anomalies),
                      deprecated_risk |-> Len(deprecated),
                      quality_score |-> quality_score],
         enriched_endpoints |-> r.enriched_endpoints,
         new_discoveries |-> r.new_discoveries,
         anomalies |-> r.anomalies,
         deprecated |-> deprecated,
         knowledge_stats |-> get_stats(view)]

\* the dictionary `report` of analyze_har, lines 375-390, built at time t from
\* the values r that the run computed, with get_stats() read from the store
\* as the connection sees it now
report(r, quality_score, view, t) ==
    [op |-> "report",
     summary |-> [js_assets |-> r.har.js_assets,
                  endpoints_found |-> Len(r.enriched_endpoints),
                  new_discoveries |-> Len(r.new_discoveries),
                  anomalies |-> Len(r.anomalies),
                  deprecated_risk |-> Len(r.deprecated),
                  quality_score |-> quality_score],
     enriched_endpoints |-> r.enriched_endpoints,
     new_discoveries |-> r.new_discoveries,
     anomalies |-> r.anomalies,
     deprecated |-> r.deprecated,
     knowledge_stats |-> get_stats(view)]

\* analyze_har, lines 362-393: quality, history, report; then main, lines
\* 638-642 and 660-661: the report is saved, the store closed
FinishRun ==
    /\ run.pc = "learn"
    /\ ~run.learn \/ run.i > Len(run.enriched_endpoints)
    /\ LET eps == run.enriched_endpoints
           quality_score == _assess_quality(eps, run.new_discoveries, run.anomalies)
           history == _save_analysis_history(analysis_history, run.har.file,
                          run.har.js_assets, Len(eps), Len(run.new_discoveries),
                          quality_score, now)
           view == [Db EXCEPT !.analysis_history = history]
           committed == commit(view, run.committed)
           file == close(view, committed)
       IN  /\ patterns' = file.patterns
           /\ endpoints' = file.endpoints
           /\ analysis_history' = file.analysis_history
           /\ feedback' = file.feedback
           /\ call' = report(run, quality_score, view, now)
           /\ run' = [run EXCEPT !.pc = "done", !.status = 0, !.closed = TRUE,
                                 !.committed = committed]
    /\ UNCHANGED <<now, ncalls>>

\* WHERE confidence < 0.7
ReviewMaxConfidence == 70

\* LIMIT 10
ReviewLimit == 10

\* the SELECT of train_interactive without its WHERE clause
review_rows_unfiltered(tbl) ==
    { [k \in 1..Min(ReviewLimit, Len(q)) |->
          [path |-> q[k].path, confidence |-> q[k].confidence]] :
      q \in Selections(tbl, DOMAIN tbl) }

\* train_interactive: the lists that SELECT path, confidence FROM endpoints
\* WHERE confidence < 0.7 ORDER BY RANDOM() LIMIT 10 can return
review_rows(tbl) ==
    { [k \in 1..Min(ReviewLimit, Len(q)) |->
          [path |-> q[k].path, confidence |-> q[k].confidence]] :
      q \in Selections(tbl, {i \in DOMAIN tbl : tbl[i].confidence < ReviewMaxConfidence}) }

\* str.lower() on the letters typed in this model
Lower(c) ==
    IF c = "C" THEN "c" ELSE IF c = "F" THEN "f" ELSE IF c = "M" THEN "m"
    ELSE IF c = "S" THEN "s" ELSE c

\* input(...).strip().lower()
strip_lower(text) ==
    LET kept == {k \in DOMAIN text : text[k] # " "}
    IN  IF kept = {} THEN <<>>
        ELSE LET lo == CHOOSE k \in kept : \A m \in kept : k <= m
                 hi == CHOOSE k \in kept : \A m \in kept : k >= m
             IN  [k \in 1..(hi - lo + 1) |-> Lower(text[lo + k - 1])]

\* what is typed at the prompt "Feedback (c=correct/f=false/m=missed/s=skip)"
FeedbackInputs == {<<"C">>, <<" ", "f">>, <<"m">>, <<"s">>, <<"c", "f">>, <<>>}

\* what is typed at the prompt "What was missed?"
CommentInputs == {<<"v", "2">>}

\* the state of the review loop after the row run.i: the next prompt, or, after
\* the last row, the end of train_interactive and of main
AfterRow(r, committed) ==
    IF r.i < Len(r.rows)
    THEN [r EXCEPT !.pc = "prompt", !.i = @ + 1, !.committed = committed]
    ELSE [r EXCEPT !.pc = "exit", !.i = @ + 1, !.committed = committed,
                   !.status = 0, !.closed = TRUE]

\* train_interactive, lines 565-577: the SELECT, then the first prompt
TrainStart ==
    /\ run.pc = "idle"
    /\ \E rows \in review_rows(endpoints) :
         run' = AfterRow([pc |-> "prompt", command |-> "train", status |-> 0,
                          opened |-> TRUE, closed |-> FALSE, committed |-> Db,
                          rows |-> rows, i |-> 0], Db)
    /\ call' = [op |-> "train_interactive"]
    /\ UNCHANGED <<patterns, endpoints, analysis_history, feedback, now, ncalls>>

\* train_interactive, lines 577-592 without the branch 'm': the answer to the
\* feedback prompt and what it dispatches
TrainAnswer ==
    /\ run.pc = "prompt"
    /\ \E text \in FeedbackInputs :
         LET answer == strip_lower(text)
             path == run.rows[run.i].path
             feedback_type == IF answer = <<"c">> THEN "correct" ELSE "false_positive"
             r == add_feedback(endpoints, feedback, path, feedback_type, <<>>, now)
             view == [Db EXCEPT !.endpoints = r[1], !.feedback = r[2]]
         IN  /\ answer # <<"m">>
             /\ call' = [op |-> "input", prompt |-> "feedback", text |-> text,
                         path |-> path]
             /\ IF answer \in {<<"c">>, <<"f">>}
                THEN /\ endpoints' = r[1]
                     /\ feedback' = r[2]
                     /\ run' = AfterRow(run, IF RowsWith(endpoints, "path", path) = {}
                                             THEN run.committed
                                             ELSE commit(view, run.committed))
                ELSE /\ UNCHANGED <<endpoints, feedback>>
                     /\ run' = AfterRow(run, run.committed)
    /\ UNCHANGED <<patterns, analysis_history, now, ncalls>>

\* train_interactive, lines 585-586: the answer 'm'; the comment is asked for
TrainAnswerMissed ==
    /\ run.pc = "prompt"
    /\ \E text \in FeedbackInputs :
         /\ strip_lower(text) = <<"m">>
         /\ call' = [op |-> "input", prompt |-> "feedback", text |-> text,
                     path |-> run.rows[run.i].path]
    /\ run' = [run EXCEPT !.pc = "prompt_comment"]
    /\ UNCHANGED <<patterns, endpoints, analysis_history, feedback, now, ncalls>>

\* train_interactive, lines 586-588: the comment, then add_feedback 'missed'
TrainComment ==
    /\ run.pc = "prompt_comment"
    /\ \E comment \in CommentInputs :
         LET path == run.rows[run.i].path
             r == add_feedback(endpoints, feedback, path, "missed", comment, now)
             view == [Db EXCEPT !.endpoints = r[1], !.feedback = r[2]]
         IN  /\ endpoints' = r[1]
             /\ feedback' = r[2]
             /\ call' = [op |-> "input", prompt |-> "comment", text |-> comment,
                         path |-> path]
             /\ run' = AfterRow(run, IF RowsWith(endpoints, "path", path) = {}
                                     THEN run.committed
                                     ELSE commit(view, run.committed))
    /\ UNCHANGED <<patterns, analysis_history, now, ncalls>>

\* input() raises at a prompt (KeyboardInterrupt, EOFError): the exception
\* leaves train_interactive and main; the finally clause closes the store
TrainInterrupt ==
    /\ run.pc \in {"prompt", "prompt_comment"}
    /\ LET file == close(Db, run.committed)
       IN  /\ patterns' = file.patterns
           /\ endpoints' = file.endpoints
           /\ analysis_history' = file.analysis_history
           /\ feedback' = file.feedback
    /\ run' = [run EXCEPT !.pc = "failed", !.status = 1, !.closed = TRUE]
    /\ call' = [op |-> "raise", raised_in |-> "input", path |-> run.rows[run.i].path]
    /\ UNCHANGED <<now, ncalls>>

Next ==
    \/ UsageExit
    \/ AnalyzeNoFile
    \/ UnknownVerb
    \/ StatsCommand
    \/ ExportCommand
    \/ AnalyzeStart
    \/ LearnStep
    \/ LearnFails
    \/ FinishRun
    \/ TrainStart
    \/ TrainAnswer
    \/ TrainAnswerMissed
    \/ TrainComment
    \/ TrainInterrupt

Spec == Init /\ [][Next]_vars

(***************************************************************************)
(* The pure functions of HARAgent called on their own: SpecPure            *)
(* The paths are the concatenations of at most MaxSegs segments of a       *)
(* library chosen for the function under test; a behaviour is one call.    *)
(***************************************************************************)
\* the bound on the number of segments of a path
MaxSegs == 4

UuidLower ==
    <<"3","f","a","8","5","f","6","4","-","5","7","1","7","-","4","5","6","2","-",
      "b","3","f","c","-","2","c","9","6","3","f","6","6","a","f","a","6">>

UuidUpper ==
    <<"3","F","A","8","5","F","6","4","-","5","7","1","7","-","4","5","6","2","-",
      "B","3","F","C","-","2","C","9","6","3","F","6","6","A","F","A","6">>

\* the concatenations of at most n segments of segs
RECURSIVE PathsOver(_, _)
PathsOver(segs, n) ==
    IF n = 0 THEN {<<>>}
    ELSE LET shorter == PathsOver(segs, n - 1)
         IN  shorter \cup {q \o g : q \in shorter, g \in segs}

CanonSegs ==
    { <<"/","t","h","r","e","a","d">>,
      <<"/","m","e","s","s","a","g","e","s">>,
      <<"/","4","2">>,
      <<"/","v","2","x","9">>,
      <<"/">> \o UuidLower,
      <<"/">> \o UuidUpper }

CategorySegs ==
    { <<"/","s","s","e">>, <<"/","r","e","s","t">>, <<"/","r","e","a","l","t","i","m","e">>,
      <<"/","t","h","r","e","a","d","s">>, <<"/","a","u","t","h">>,
      <<"/","l","o","g","i","n">>, <<"/","x">> }

MethodSegs ==
    { CreateSeg, AddSeg, UpdateSeg, EditSeg, DeleteSeg, RemoveSeg,
      <<"/","p","a","d","d","i","n","g">>, <<"/","r","e","c","r","e","a","t","e">>,
      <<"/","u","n","e","d","i","t","e","d">>, <<"/","x","_","r","e","m","o","v","e">>,
      <<"/","x">> }

CanonPaths == PathsOver(CanonSegs, MaxSegs)

CategoryPaths == PathsOver(CategorySegs, MaxSegs)

MethodPaths == PathsOver(MethodSegs, MaxSegs - 1)

\* the bound on the number of endpoints passed to _assess_quality
MaxQualityEps == 3

\* the bound on the number of anomalies passed to _assess_quality
MaxAnomalies == 25

\* the lists of at most n endpoints with confidence 0.4, 0.8, 0.81 or 0.9
RECURSIVE QualityEndpoints(_)
QualityEndpoints(n) ==
    IF n = 0 THEN {<<>>}
    ELSE LET shorter == QualityEndpoints(n - 1)
         IN  shorter \cup
             { Append(q, [_enrich_endpoint(PathUser, 1, <<>>, 0) EXCEPT !.confidence = c]) :
                 q \in shorter, c \in {40, 80, 81, 90} }

\* a list of a anomalies
AnomalyList(a) ==
    [k \in 1..a |-> [type |-> "unresolved_template", endpoint |-> PathUser,
                     severity |-> "low"]]

ExtractPatternCall ==
    /\ ncalls = 0
    /\ \E path \in CanonPaths :
         call' = [op |-> "_extract_pattern", path |-> path, ret |-> _extract_pattern(path)]
    /\ ncalls' = 1
    /\ UNCHANGED <<patterns, endpoints, analysis_history, feedback, now, run>>

DetectCategoryCall ==
    /\ ncalls = 0
    /\ \E path \in CategoryPaths :
         call' = [op |-> "_detect_category", path |-> path, ret |-> _detect_category(path)]
    /\ ncalls' = 1
    /\ UNCHANGED <<patterns, endpoints, analysis_history, feedback, now, run>>

InferMethodCall ==
    /\ ncalls = 0
    /\ \E path \in MethodPaths :
         call' = [op |-> "_infer_method", path |-> path, ret |-> _infer_method(path)]
    /\ ncalls' = 1
    /\ UNCHANGED <<patterns, endpoints, analysis_history, feedback, now, run>>

AssessQualityCall ==
    /\ ncalls = 0
    /\ \E eps \in QualityEndpoints(MaxQualityEps), a \in 0..MaxAnomalies :
         call' = [op |-> "_assess_quality", endpoints |-> eps,
                  anomalies |-> AnomalyList(a),
                  ret |-> _assess_quality(eps, SelectSeq(eps, IsNewDiscovery),
                                          AnomalyList(a))]
    /\ ncalls' = 1
    /\ UNCHANGED <<patterns, endpoints, analysis_history, feedback, now, run>>

NextPure ==
    ExtractPatternCall \/ DetectCategoryCall \/ InferMethodCall \/ AssessQualityCall

SpecPure == InitKB /\ [][NextPure]_vars

(***************************************************************************)
(* Properties                                                              *)
(***************************************************************************)
\* the least element of a non-empty set of numbers
Least(S) == CHOOSE x \in S : \A y \in S : x <= y

\* C1: a learn_pattern call for a template that is already stored leaves the
\* stored confidence no lower and at most 1.0, and adds exactly 1 to the
\* stored occurrence_count; the confidence stored by any call is at most 1.0.
C1_PatternUpsertMonotone ==
    [][call'.op = "learn_pattern" =>
         LET t == call'.pattern.pattern
         IN  /\ \A j \in RowsWith(patterns', "pattern", t) :
                    patterns'[j].confidence <= 100
             /\ \A i \in RowsWith(patterns, "pattern", t) :
                    /\ RowsWith(patterns', "pattern", t) # {}
                    /\ \A j \in RowsWith(patterns', "pattern", t) :
                          /\ patterns'[j].confidence >= patterns[i].confidence
                          /\ patterns'[j].occurrence_count =
                                 patterns[i].occurrence_count + 1]_vars

\* a third learn_pattern call for one template, with the confidence at its bound
C1_Witness ==
    /\ call.op = "learn_pattern"
    /\ \E i \in DOMAIN patterns :
         /\ patterns[i].pattern = call.pattern.pattern
         /\ patterns[i].occurrence_count = 3
         /\ patterns[i].confidence = 100

\* C2: the store holds at most one Endpoint per path and one Pattern per
\* template, and exactly one for every key that the last call upserted
\* (a direct upsert, or every candidate of a whole analysis run that learns).
C2_OneRecordPerKey ==
    /\ \A i, j \in DOMAIN endpoints : endpoints[i].path = endpoints[j].path => i = j
    /\ \A i, j \in DOMAIN patterns : patterns[i].pattern = patterns[j].pattern => i = j
    /\ call.op = "learn_endpoint" =>
           Cardinality(RowsWith(endpoints, "path", call.endpoint.path)) = 1
    /\ call.op = "learn_pattern" =>
           Cardinality(RowsWith(patterns, "pattern", call.pattern.pattern)) = 1
    /\ call.op = "analyze_har" /\ call.learn =>
           \A k \in DOMAIN call.har.api_endpoints :
               LET path == call.har.api_endpoints[k].path
               IN  /\ Cardinality(RowsWith(endpoints, "path", path)) = 1
                   /\ Cardinality(RowsWith(patterns, "pattern", _extract_pattern(path))) = 1

\* an analysis run over two paths whose keys were stored before, one of them
\* for the third time
C2_Witness ==
    /\ call.op = "analyze_har"
    /\ call.learn
    /\ Len(call.har.api_endpoints) = 2
    /\ Len(endpoints) = 2
    /\ Len(patterns) = 2
    /\ \E i \in DOMAIN patterns : patterns[i].occurrence_count = 3

\* C3: every stored Pattern confidence, Endpoint confidence, stability_score
\* and deprecation_risk lies in [0, 1].
C3_ScalarsInUnitInterval ==
    /\ \A i \in DOMAIN patterns :
           patterns[i].confidence >= 0 /\ patterns[i].confidence <= 100
    /\ \A i \in DOMAIN endpoints :
           /\ endpoints[i].confidence >= 0 /\ endpoints[i].confidence <= 100
           /\ endpoints[i].stability_score.num >= 0
           /\ endpoints[i].stability_score.num <= 10 * Pow2(endpoints[i].stability_score.exp)
           /\ endpoints[i].deprecation_risk >= 0 /\ endpoints[i].deprecation_risk <= 100

\* feedback 'false_positive' given twice on an endpoint stored with 0.05: the
\* confidence is floored at 0.0 both times
C3_Witness ==
    /\ call.op = "add_feedback"
    /\ call.feedback_type = "false_positive"
    /\ Len(feedback) = 2
    /\ \E i \in DOMAIN endpoints :
         endpoints[i].path = call.endpoint_path /\ endpoints[i].confidence = 0

\* C4: add_feedback for a stored path appends one feedback row for that
\* endpoint and sets its confidence c to min(1.0, c + 0.10) on 'correct', to
\* max(0.0, c - 0.20) on 'false_positive', and leaves it on 'missed'; no other
\* endpoint changes.
C4_FeedbackAdjustsConfidence ==
    [][(call'.op = "add_feedback"
            /\ RowsWith(endpoints, "path", call'.endpoint_path) # {}) =>
         LET kind == call'.feedback_type
             Expected(c) ==
                 IF kind = "correct" THEN (IF c + 10 > 100 THEN 100 ELSE c + 10)
                 ELSE IF kind = "false_positive" THEN (IF c - 20 < 0 THEN 0 ELSE c - 20)
                 ELSE c
         IN  /\ Len(feedback') = Len(feedback) + 1
             /\ SubSeq(feedback', 1, Len(feedback)) = feedback
             /\ feedback'[Len(feedback')].feedback_type = kind
             /\ endpoints[feedback'[Len(feedback')].endpoint_id].path = call'.endpoint_path
             /\ DOMAIN endpoints' = DOMAIN endpoints
             /\ \A i \in DOMAIN endpoints :
                    endpoints'[i] =
                        IF endpoints[i].path = call'.endpoint_path
                        THEN [endpoints[i] EXCEPT !.confidence = Expected(@)]
                        ELSE endpoints[i]]_vars

\* 'correct' on an endpoint stored with confidence 0.75: it stands at 0.85
C4_Witness ==
    /\ ncalls = 2
    /\ call.op = "add_feedback"
    /\ call.feedback_type = "correct"
    /\ Len(feedback) = 1
    /\ \E i \in DOMAIN endpoints :
         endpoints[i].path = call.endpoint_path /\ endpoints[i].confidence = 85

\* C5: add_feedback for a path that is not stored changes no table, for every
\* feedback type.
C5_UnknownPathIsNoOp ==
    [][(call'.op = "add_feedback"
            /\ RowsWith(endpoints, "path", call'.endpoint_path) = {}) =>
         /\ feedback' = feedback
         /\ endpoints' = endpoints
         /\ patterns' = patterns
         /\ analysis_history' = analysis_history]_vars

\* add_feedback for a path that no row has, on a store that has rows
C5_Witness ==
    /\ call.op = "add_feedback"
    /\ call.endpoint_path = PathUnknown
    /\ Len(endpoints) = 2
    /\ feedback = <<>>

\* C6: learn_endpoint for a stored path sets last_seen and version_history to
\* the incoming values, confidence to min(1.0, stored + 0.03) and
\* stability_score to (stored + incoming) / 2; every other column and every
\* other row stays.
C6_EndpointMerge ==
    [][(call'.op = "learn_endpoint"
            /\ RowsWith(endpoints, "path", call'.endpoint.path) # {}) =>
         LET e == call'.endpoint
         IN  /\ DOMAIN endpoints' = DOMAIN endpoints
             /\ \A i \in DOMAIN endpoints :
                  IF endpoints[i].path # e.path THEN endpoints'[i] = endpoints[i]
                  ELSE LET old == endpoints[i]
                           new == endpoints'[i]
                           x == Max(new.stability_score.exp,
                                    Max(old.stability_score.exp, e.stability_score.exp))
                       IN  /\ new.last_seen = e.last_seen
                           /\ new.version_history = e.version_history
                           /\ new.confidence =
                                  (IF old.confidence + 3 > 100 THEN 100
                                   ELSE old.confidence + 3)
                           /\ 2 * Scaled(new.stability_score, x) =
                                  Scaled(old.stability_score, x)
                                  + Scaled(e.stability_score, x)
                           /\ new.path = old.path
                           /\ new.first_discovered = old.first_discovered]_vars

\* a stored endpoint (0.99, stability 1.0) merged with an incoming one
\* (stability 0.3, a version history): 1.0, 0.65, the incoming history
C6_Witness ==
    /\ call.op = "learn_endpoint"
    /\ \E i \in DOMAIN endpoints :
         /\ endpoints[i].path = call.endpoint.path
         /\ endpoints[i].confidence = 100
         /\ endpoints[i].stability_score = [num |-> 13, exp |-> 1]
         /\ endpoints[i].version_history = <<"v1">>
         /\ endpoints[i].last_seen > endpoints[i].first_discovered

\* C7 as claimed: _extract_pattern replaces every UUID-shaped part of the
\* path, of 8-4-4-4-12 hexadecimal digits in either case, by {uuid}, then every
\* maximal run of digits by {id}, and its result holds no digit.
C7_CanonicalizerAsClaimed ==
    call.op = "_extract_pattern" =>
        /\ call.ret = SubDigits(SubUuid(call.path, HexAny))
        /\ \A k \in DOMAIN call.ret : call.ret[k] \notin Digit

\* C8: the confidence of every enriched endpoint is 0.5 when no pattern of
\* the list read at the start of the run matches its path, and otherwise
\* max(0.5, c) for the confidence c of the first pattern of the list that
\* matches; before the run learns, that list holds the stored patterns with
\* confidence >= 0.7, each once, by confidence descending, then
\* occurrence_count descending.
C8_FirstMatchDecides ==
    run.pc \in {"learn", "done"} =>
        LET lp == run.learned_patterns
        IN  /\ \A k \in DOMAIN run.enriched_endpoints :
                 LET path == run.har.api_endpoints[k].path
                     matching == {i \in DOMAIN lp : re_search(lp[i].pattern, path)}
                     c == run.enriched_endpoints[k].confidence
                 IN  /\ run.enriched_endpoints[k].path = path
                     /\ matching = {} => c = 50
                     /\ matching # {} =>
                          c = (IF lp[Least(matching)].confidence > 50
                               THEN lp[Least(matching)].confidence ELSE 50)
            /\ (run.pc = "learn" /\ run.i = 1) =>
                 /\ \A a \in DOMAIN lp : lp[a].confidence >= 70
                 /\ \A a, b \in DOMAIN lp :
                        a < b => \/ lp[a].confidence > lp[b].confidence
                                 \/ /\ lp[a].confidence = lp[b].confidence
                                    /\ lp[a].occurrence_count >= lp[b].occurrence_count
                 /\ \A i \in DOMAIN patterns :
                        patterns[i].confidence >= 70 =>
                            Cardinality({a \in DOMAIN lp : lp[a] = patterns[i]}) = 1
                 /\ \A a \in DOMAIN lp : \E i \in DOMAIN patterns : lp[a] = patterns[i]

\* a candidate that two listed patterns of different confidence match: it
\* gets the confidence of the first, 0.75, not the 0.70 of the second
C8_Witness ==
    /\ run.pc = "learn"
    /\ \E k \in DOMAIN run.enriched_endpoints :
         /\ run.enriched_endpoints[k].path = PathThreadCreate
         /\ run.enriched_endpoints[k].confidence = 75
         /\ \E a, b \in DOMAIN run.learned_patterns :
              /\ a < b
              /\ re_search(run.learned_patterns[a].pattern, PathThreadCreate)
              /\ re_search(run.learned_patterns[b].pattern, PathThreadCreate)
              /\ run.learned_patterns[a].confidence = 75
              /\ run.learned_patterns[b].confidence = 70

\* the rules of _detect_category in their order, each the set of substrings
\* one of which must occur, and the categories they give
CategoryRules == <<{SseSeg}, {RestSeg}, {RealtimeSeg}, {ThreadsSeg}, {AuthSeg, LoginSeg}>>

CategoryNames == <<"SSE", "REST", "Realtime", "Threads", "Auth">>

\* the rules of rules that path satisfies
RulesHit(rules, path) ==
    {r \in DOMAIN rules : \E g \in rules[r] : Contains(path, g)}

\* C9: the category is that of the first rule, in the order SSE, REST,
\* Realtime, Threads, Auth-or-login, that the path satisfies, and Other when
\* it satisfies none.
C9_CategoryByFirstRule ==
    call.op = "_detect_category" =>
        LET hit == RulesHit(CategoryRules, call.path)
        IN  call.ret = IF hit = {} THEN "Other" ELSE CategoryNames[Least(hit)]

\* a path that satisfies the REST, the Threads and the SSE rule, the REST
\* segment coming first in it: SSE
C9_Witness ==
    /\ call.op = "_detect_category"
    /\ call.path = <<"/","r","e","s","t","/","t","h","r","e","a","d","s",
                     "/","s","s","e","/","x">>
    /\ call.ret = "SSE"

MethodNames == <<"POST", "PUT", "DELETE">>

\* the rules of _infer_method as the claim words them: bare words
MethodWords ==
    << {<<"c","r","e","a","t","e">>, <<"a","d","d">>},
       {<<"u","p","d","a","t","e">>, <<"e","d","i","t">>},
       {<<"d","e","l","e","t","e">>, <<"r","e","m","o","v","e">>} >>

\* the rules of _infer_method with the slash that starts each substring
MethodRules == <<{CreateSeg, AddSeg}, {UpdateSeg, EditSeg}, {DeleteSeg, RemoveSeg}>>

\* C10 as claimed: POST when the path contains "create" or "add", else PUT
\* when it contains "update" or "edit", else DELETE when it contains "delete"
\* or "remove", else GET.
C10_MethodByBareWords ==
    call.op = "_infer_method" =>
        LET hit == RulesHit(MethodWords, call.path)
        IN  call.ret = IF hit = {} THEN "GET" ELSE MethodNames[Least(hit)]

\* C10, amended: POST when the path contains "/create" or "/add", else PUT
\* when it contains "/update" or "/edit", else DELETE when it contains
\* "/delete" or "/remove", else GET.
C10_MethodBySlashWords ==
    call.op = "_infer_method" =>
        LET hit == RulesHit(MethodRules, call.path)
        IN  call.ret = IF hit = {} THEN "GET" ELSE MethodNames[Least(hit)]

\* a path with "/edit" before "/recreate": the bare "create" gives no POST, a
\* path with "/remove" before "/add": POST
C10_Witness ==
    /\ call.op = "_infer_method"
    /\ \/ /\ call.path = EditSeg \o <<"/","r","e","c","r","e","a","t","e">>
          /\ call.ret = "PUT"
       \/ /\ call.path = RemoveSeg \o AddSeg
          /\ call.ret = "POST"

\* C11: the quality score is clamp(1.0 - 0.05 * anomalies + 0.2 * (endpoints
\* with confidence > 0.8 / max(1, endpoints)), 0.0, 1.0), and so lies in [0, 1].
C11_QualityFormula ==
    call.op = "_assess_quality" =>
        LET m == IF Len(call.endpoints) >= 1 THEN Len(call.endpoints) ELSE 1
            h == Cardinality({k \in DOMAIN call.endpoints :
                                call.endpoints[k].confidence > 80})
            raw == 100 * m - 5 * Len(call.anomalies) * m + 20 * h
            clamped == IF raw < 0 THEN 0 ELSE IF raw > 100 * m THEN 100 * m ELSE raw
        IN  /\ call.ret.den > 0
            /\ call.ret.num * 100 * m = clamped * call.ret.den
            /\ call.ret.num >= 0
            /\ call.ret.num <= call.ret.den

\* two endpoints with confidence 0.9 and 0.4 and one anomaly: 1.05, clamped to
\* 1.0
C11_Witness ==
    /\ call.op = "_assess_quality"
    /\ Len(call.endpoints) = 2
    /\ call.endpoints[1].confidence = 90
    /\ call.endpoints[2].confidence = 40
    /\ Len(call.anomalies) = 1
    /\ call.ret.num = call.ret.den

\* C12: get_learned_patterns(min_confidence) returns the stored patterns with
\* confidence >= min_confidence and no others, each once, by confidence
\* descending, and by occurrence_count descending among equal confidences.
C12_LearnedPatternsQuery ==
    call.op = "get_learned_patterns" =>
        LET q == call.ret
            m == call.min_confidence
        IN  /\ \A a \in DOMAIN q :
                   /\ q[a].confidence >= m
                   /\ \E i \in DOMAIN patterns : patterns[i] = q[a]
            /\ \A i \in DOMAIN patterns :
                   patterns[i].confidence >= m =>
                       Cardinality({a \in DOMAIN q : q[a] = patterns[i]}) = 1
            /\ \A a, b \in DOMAIN q :
                   a < b => \/ q[a].confidence > q[b].confidence
                            \/ /\ q[a].confidence = q[b].confidence
                               /\ q[a].occurrence_count >= q[b].occurrence_count

\* two stored patterns with confidence 1.0, seen twice and once, and the query
\* for 1.0: both are returned, the one seen twice first
C12_Witness ==
    /\ call.op = "get_learned_patterns"
    /\ call.min_confidence = 100
    /\ Len(call.ret) = 2
    /\ call.ret[1].confidence = 100
    /\ call.ret[2].confidence = 100
    /\ call.ret[1].occurrence_count = 2
    /\ call.ret[2].occurrence_count = 1

\* C13: detect_deprecations(days_threshold) returns the stored endpoints whose
\* last_seen is strictly earlier than now - days_threshold and no others, each
\* once, by deprecation_risk descending.
C13_StaleEndpointsQuery ==
    call.op = "detect_deprecations" =>
        LET q == call.ret
            limit == call.at - call.days_threshold
        IN  /\ \A a \in DOMAIN q :
                   /\ q[a].last_seen < limit
                   /\ \E i \in DOMAIN endpoints : endpoints[i] = q[a]
            /\ \A i \in DOMAIN endpoints :
                   endpoints[i].last_seen < limit =>
                       Cardinality({a \in DOMAIN q : q[a] = endpoints[i]}) = 1
            /\ \A a, b \in DOMAIN q :
                   a < b => q[a].deprecation_risk >= q[b].deprecation_risk

\* 40 days after one endpoint was last seen and 20 days after another was, the
\* query for 30 days returns the first and not the second
C13_Witness ==
    /\ call.op = "detect_deprecations"
    /\ call.days_threshold = 30
    /\ Len(call.ret) = 1
    /\ call.ret[1].last_seen = call.at - 40
    /\ \E i \in DOMAIN endpoints : endpoints[i].last_seen = call.at - 20

\* C14: no step of any command removes a Pattern or an Endpoint (every stored
\* template and path is still stored after the step), and every step leaves
\* the rows of analysis_history and of feedback that exist as they are, in
\* place: the tables only grow.
C14_RecordsOnlyGrow ==
    [][/\ \A i \in DOMAIN patterns :
              \E j \in DOMAIN patterns' : patterns'[j].pattern = patterns[i].pattern
       /\ \A i \in DOMAIN endpoints :
              \E j \in DOMAIN endpoints' : endpoints'[j].path = endpoints[i].path
       /\ Len(analysis_history') >= Len(analysis_history)
       /\ SubSeq(analysis_history', 1, Len(analysis_history)) = analysis_history
       /\ Len(feedback') >= Len(feedback)
       /\ SubSeq(feedback', 1, Len(feedback)) = feedback]_vars

\* an analysis run that has learned and ended on a store with three endpoints
\* and two earlier history rows: a third row, the two as they were
C14_Witness ==
    /\ run.pc = "done"
    /\ run.learn
    /\ Len(run.enriched_endpoints) = 2
    /\ Len(endpoints) = 3
    /\ Len(analysis_history) = 3

\* C15: when the learning loop of a run fails at its k-th endpoint, the
\* Endpoint and Pattern upserts of endpoints 1..k-1 of this run are stored
\* (their rows carry the time of this run as last_seen), and no row of
\* analysis_history was written by this run.
C15_PartialLearningKept ==
    (run.pc = "failed" /\ run.command = "analyze") =>
        /\ \A j \in 1..(run.i - 1) :
              LET ep == run.enriched_endpoints[j]
              IN  /\ \E e \in DOMAIN endpoints :
                        endpoints[e].path = ep.path /\ endpoints[e].last_seen = now
                  /\ \E q \in DOMAIN patterns :
                        /\ patterns[q].pattern = _extract_pattern(ep.path)
                        /\ patterns[q].last_seen = now
        /\ \A h \in DOMAIN analysis_history : analysis_history[h].analyzed_at # now

\* the loop fails at the second of two endpoints, the first of which was new
\* to the store
C15_Witness ==
    /\ run.pc = "failed"
    /\ run.command = "analyze"
    /\ run.i = 2
    /\ Len(run.enriched_endpoints) = 2
    /\ Len(endpoints) = 2
    /\ endpoints[2].path = run.enriched_endpoints[1].path
    /\ endpoints[2].first_discovered = now

\* the state is one of a review session (train_interactive)
InReview == run.pc # "idle" /\ run.command = "train"

\* C16: the rows of a review session are stored endpoints, each once, whose
\* confidence was < 0.7 when the session read them; the answer to a row's
\* prompt dispatches add_feedback 'correct' for c, 'false_positive' for f,
\* 'missed' with the comment typed next for m, and nothing for any other
\* answer, and then the session goes to the next row; the session writes at
\* most one feedback row per endpoint.
C16_ReviewSession ==
    /\ [](InReview =>
            /\ \A a, b \in DOMAIN run.rows : run.rows[a].path = run.rows[b].path => a = b
            /\ \A a \in DOMAIN run.rows :
                  /\ run.rows[a].confidence < 70
                  /\ \E e \in DOMAIN endpoints : endpoints[e].path = run.rows[a].path
            /\ \A a, b \in DOMAIN feedback :
                  feedback[a].endpoint_id = feedback[b].endpoint_id => a = b)
    /\ [][(call'.op = "train_interactive" /\ run'.pc # "idle") =>
             \A a \in DOMAIN run'.rows :
                 \E e \in DOMAIN endpoints :
                     /\ endpoints[e].path = run'.rows[a].path
                     /\ endpoints[e].confidence = run'.rows[a].confidence]_vars
    /\ [][call'.op = "input" =>
             LET answer == strip_lower(call'.text)
                 row == run.rows[run.i]
                 Written(kind, comment) ==
                     /\ Len(feedback') = Len(feedback) + 1
                     /\ feedback'[Len(feedback')].feedback_type = kind
                     /\ feedback'[Len(feedback')].comment = comment
                     /\ endpoints[feedback'[Len(feedback')].endpoint_id].path = row.path
                 Resolved == run'.i = run.i + 1 /\ run'.pc \in {"prompt", "exit"}
             IN  /\ call'.path = row.path
                 /\ call'.prompt = "comment" =>
                        Written("missed", call'.text) /\ Resolved
                 /\ (call'.prompt = "feedback" /\ answer = <<"c">>) =>
                        Written("correct", <<>>) /\ Resolved
                 /\ (call'.prompt = "feedback" /\ answer = <<"f">>) =>
                        Written("false_positive", <<>>) /\ Resolved
                 /\ (call'.prompt = "feedback" /\ answer = <<"m">>) =>
                        /\ feedback' = feedback
                        /\ endpoints' = endpoints
                        /\ run'.pc = "prompt_comment"
                        /\ run'.i = run.i
                 /\ (call'.prompt = "feedback" /\ answer \notin {<<"c">>, <<"f">>, <<"m">>}) =>
                        /\ feedback' = feedback
                        /\ endpoints' = endpoints
                        /\ Resolved]_vars

\* a session over three endpoints that has ended: one was skipped, one was
\* reported as missed with a comment
C16_Witness ==
    /\ run.pc = "exit"
    /\ run.command = "train"
    /\ Len(run.rows) = 3
    /\ Len(feedback) = 2
    /\ \E a \in DOMAIN feedback :
          feedback[a].feedback_type = "missed" /\ feedback[a].comment = <<"v", "2">>

\* C17: at every prompt of the review session the database file holds what
\* the connection sees (nothing is uncommitted), and an interruption at a
\* prompt leaves all four tables as they are.
C17_NothingPendingAtPrompt ==
    /\ [](run.pc \in {"prompt", "prompt_comment"} => run.committed = Db)
    /\ [][(call'.op = "raise" /\ call'.raised_in = "input") =>
             /\ patterns' = patterns
             /\ endpoints' = endpoints
             /\ analysis_history' = analysis_history
             /\ feedback' = feedback]_vars

\* the session is interrupted at its third prompt, after 'correct' on an
\* endpoint stored with 0.5 and 'false_positive' on another: both rows and
\* both adjustments are in the file
C17_Witness ==
    /\ run.pc = "failed"
    /\ run.command = "train"
    /\ run.i = 3
    /\ Len(feedback) = 2
    /\ \E e \in DOMAIN endpoints : endpoints[e].confidence = 60
    /\ \E e \in DOMAIN endpoints : endpoints[e].confidence = 30

\* C18: the process ends with status 1 when no verb is given (the store is
\* never opened) or analyze is given without a file, and neither changes a
\* table or calls analyze_har; with status 0 after train, export, stats and
\* an unknown verb; and a store that was opened is closed when the process has
\* ended, however it ended.
C18_Dispatcher ==
    /\ [](run.pc \in {"exit", "done", "failed"} =>
            /\ run.opened => run.closed
            /\ (run.pc = "exit" /\ run.command = "") => (run.status = 1 /\ ~run.opened)
            /\ (run.pc = "exit" /\ run.command = "analyze") => (run.status = 1 /\ run.opened)
            /\ (run.pc = "exit" /\ run.command \notin {"", "analyze"}) =>
                   (run.status = 0 /\ run.opened))
    /\ [][(run'.pc = "exit" /\ run'.command \in {"", "analyze"}) =>
             /\ patterns' = patterns
             /\ endpoints' = endpoints
             /\ analysis_history' = analysis_history
             /\ feedback' = feedback
             /\ ncalls' = ncalls]_vars

\* analyze without a file on a store with three endpoints: status 1, the
\* store closed
C18_Witness ==
    /\ run.pc = "exit"
    /\ run.command = "analyze"
    /\ run.status = 1
    /\ run.closed
    /\ ncalls = 0
    /\ Len(endpoints) = 3

\* C19 as claimed: when the list of patterns read at the start of a run
\* (confidence >= 0.7) holds the canonical template of a candidate's path with
\* confidence c, the candidate is enriched with a confidence >= c.
C19_OwnTemplateMatches ==
    call.op = "analyze_har" =>
        \A k \in DOMAIN call.har.api_endpoints :
            \A a \in DOMAIN call.learned_patterns :
                call.learned_patterns[a].pattern =
                    _extract_pattern(call.har.api_endpoints[k].path)
                => call.enriched_endpoints[k].confidence >=
                       call.learned_patterns[a].confidence

\* C20: a learn_pattern call for a stored template leaves the row's pattern,
\* category and first_seen, a learn_endpoint call for a stored path leaves the
\* row's path, method, category, first_discovered and related_endpoints; the
\* confidence after the call is the same whatever confidence comes in.
C20_IdentityKept ==
    [][/\ call'.op = "learn_pattern" =>
              \A i \in RowsWith(patterns, "pattern", call'.pattern.pattern) :
                  /\ patterns'[i].pattern = patterns[i].pattern
                  /\ patterns'[i].category = patterns[i].category
                  /\ patterns'[i].first_seen = patterns[i].first_seen
                  /\ \A p \in PatternInputs :
                         p.pattern = call'.pattern.pattern =>
                             learn_pattern(patterns, p)[i].confidence =
                                 patterns'[i].confidence
       /\ call'.op = "learn_endpoint" =>
              \A i \in RowsWith(endpoints, "path", call'.endpoint.path) :
                  /\ endpoints'[i].path = endpoints[i].path
                  /\ endpoints'[i].method = endpoints[i].method
                  /\ endpoints'[i].category = endpoints[i].category
                  /\ endpoints'[i].first_discovered = endpoints[i].first_discovered
                  /\ endpoints'[i].related_endpoints = endpoints[i].related_endpoints
                  /\ \A e \in EndpointInputs :
                         e.path = call'.endpoint.path =>
                             learn_endpoint(endpoints, e)[i].confidence =
                                 endpoints'[i].confidence]_vars

\* an endpoint stored as GET, REST, confidence 0.05 is upserted with POST,
\* Other, a related endpoint, confidence 0.75: it stays GET, REST, without
\* related endpoints, at 0.08
C20_Witness ==
    /\ call.op = "learn_endpoint"
    /\ call.endpoint.method = "POST"
    /\ call.endpoint.confidence = 75
    /\ \E i \in DOMAIN endpoints :
         /\ endpoints[i].path = call.endpoint.path
         /\ endpoints[i].method = "GET"
         /\ endpoints[i].category = "REST"
         /\ endpoints[i].related_endpoints = <<>>
         /\ endpoints[i].confidence = 8
         /\ endpoints[i].last_seen > endpoints[i].first_discovered

\* C21: every endpoint that enrichment produces has confidence >= 0.5, for
\* every content of the store; the new_discoveries list of an analysis run is
\* empty and every row of analysis_history has new_patterns = 0.
C21_NoNewDiscoveries ==
    /\ call.op = "analyze_har" =>
           /\ \A k \in DOMAIN call.enriched_endpoints :
                  call.enriched_endpoints[k].confidence >= 50
           /\ SelectSeq(call.enriched_endpoints, IsNewDiscovery) = <<>>
    /\ \A i \in DOMAIN analysis_history : analysis_history[i].new_patterns = 0

\* a run with a high-confidence pattern in the list that matches none of its
\* candidates: they are enriched with 0.5 and the run's row counts 0
C21_Witness ==
    /\ call.op = "analyze_har"
    /\ Len(call.learned_patterns) > 0
    /\ \E k \in DOMAIN call.enriched_endpoints :
           call.enriched_endpoints[k].confidence = 50
    /\ analysis_history # <<>>
    /\ analysis_history[Len(analysis_history)].new_patterns = 0

\* what enrichment in a run on the store db yields for the candidate path:
\* confidence, category, method and deprecation risk
Scores(db, path) ==
    { LET e == _enrich_endpoint(path, 1, lp, 0)
      IN  [confidence |-> e.confidence, category |-> e.category,
           method |-> e.method, deprecation_risk |-> e.deprecation_risk] :
      lp \in LearnedPatternLists(db) }

\* the store db without its endpoints and its feedback
PatternsOnly(db) == [db EXCEPT !.endpoints = <<>>, !.feedback = <<>>]

\* C22: add_feedback changes only the feedback table and the confidence of the
\* endpoint it names, and no pattern: the lists of patterns a run can read are
\* the same before and after it, and so is what enrichment yields for the path
\* it names.  An analysis run on a store that has received feedback enriches
\* every candidate as a run on that store without its endpoints and its
\* feedback does, and leaves the same patterns.
C22_FeedbackDoesNotInfluenceScoring ==
    /\ [][call'.op = "add_feedback" =>
              /\ patterns' = patterns
              /\ analysis_history' = analysis_history
              /\ Len(endpoints') = Len(endpoints)
              /\ \A i \in DOMAIN endpoints :
                     /\ [endpoints'[i] EXCEPT !.confidence = endpoints[i].confidence]
                            = endpoints[i]
                     /\ endpoints[i].path # call'.endpoint_path
                            => endpoints'[i] = endpoints[i]
              /\ LearnedPatternLists(Db') = LearnedPatternLists(Db)
              /\ Scores(Db', call'.endpoint_path) = Scores(Db, call'.endpoint_path)]_vars
    /\ [][call'.op = "analyze_har" /\ feedback # <<>> =>
              /\ call'.learned_patterns \in LearnedPatternLists(PatternsOnly(Db))
              /\ \A k \in DOMAIN call'.enriched_endpoints :
                     LET e == call'.enriched_endpoints[k]
                     IN  [confidence |-> e.confidence, category |-> e.category,
                          method |-> e.method,
                          deprecation_risk |-> e.deprecation_risk]
                             \in Scores(PatternsOnly(Db), e.path)
              /\ patterns' = analyze_har(PatternsOnly(Db), call'.har, call'.learn,
                                         call'.learned_patterns, now).patterns]_vars

\* false_positive feedback has lowered the confidence of a stored endpoint
\* whose path a high-confidence pattern of the store matches
C22_Witness ==
    /\ call.op = "add_feedback"
    /\ call.feedback_type = "false_positive"
    /\ feedback # <<>>
    /\ \E i \in DOMAIN endpoints :
         /\ endpoints[i].path = call.endpoint_path
         /\ endpoints[i].confidence < 50
         /\ \E a \in DOMAIN patterns :
              /\ patterns[a].confidence >= MinLearnedConfidence
              /\ re_search(patterns[a].pattern, endpoints[i].path)
              /\ \E s \in Scores(Db, endpoints[i].path) :
                     s.confidence = patterns[a].confidence

\* C23: at the start of an analysis run the list of patterns is read from the
\* store, every candidate is scored against that list and nothing is written;
\* every learning step leaves the list and the scores of the run as they are,
\* and upserts the endpoint with the confidence computed at the start: an
\* endpoint inserted by the step is stored with its candidate's score against
\* the list read at the start, whatever the earlier steps of the run stored.
C23_EnrichmentPrecedesLearning ==
    [][/\ run.pc = "idle" /\ run'.pc = "learn" =>
              /\ run'.learned_patterns \in LearnedPatternLists(Db)
              /\ patterns' = patterns /\ endpoints' = endpoints
              /\ run'.i = 1
              /\ \A k \in DOMAIN run'.har.api_endpoints :
                     /\ run'.enriched_endpoints[k].path = run'.har.api_endpoints[k].path
                     /\ run'.enriched_endpoints[k].confidence =
                            ScanPatterns(run'.learned_patterns, 1,
                                         run'.har.api_endpoints[k].path)
       /\ call'.op = "_learn_from_analysis" =>
              /\ run'.learned_patterns = run.learned_patterns
              /\ run'.enriched_endpoints = run.enriched_endpoints
              /\ call'.endpoint = run.enriched_endpoints[run.i]
              /\ RowsWith(endpoints, "path", call'.endpoint.path) = {} =>
                     /\ Len(endpoints') = Len(endpoints) + 1
                     /\ endpoints'[Len(endpoints')].path = call'.endpoint.path
                     /\ endpoints'[Len(endpoints')].confidence =
                            ScanPatterns(run.learned_patterns, 1, call'.endpoint.path)]_vars

\* a run that read an empty list has raised a pattern to 0.7 or more while
\* learning an earlier candidate; that pattern matches a later candidate,
\* which is nevertheless inserted with the 0.5 it was scored with at the start
C23_Witness ==
    /\ call.op = "_learn_from_analysis"
    /\ run.pc = "learn"
    /\ run.i > 2
    /\ run.learned_patterns = <<>>
    /\ call.endpoint.confidence = 50
    /\ \E a \in DOMAIN patterns :
         /\ patterns[a].confidence >= MinLearnedConfidence
         /\ re_search(patterns[a].pattern, call.endpoint.path)
    /\ \E i \in DOMAIN endpoints :
         /\ endpoints[i].path = call.endpoint.path
         /\ endpoints[i].confidence = 50
         /\ endpoints[i].first_discovered = endpoints[i].last_seen

\* C24: the stale-endpoint query of a run reads the store before the run
\* learns, and the list it returned is the report's deprecated list, with the
\* last_seen values of before the run; knowledge_stats is read from the store
\* after learning and after the history row of the run is appended.
C24_QueryBeforeLearningStatsAfter ==
    [][/\ run.pc = "idle" /\ run'.pc = "learn" =>
              /\ run'.deprecated \in detect_deprecations(endpoints, now, DeprecationDays)
              /\ endpoints' = endpoints
       /\ call'.op = "_learn_from_analysis" => run'.deprecated = run.deprecated
       /\ call'.op = "report" =>
              /\ call'.deprecated = run.deprecated
              /\ call'.summary.deprecated_risk = Len(run.deprecated)
              /\ \A k \in DOMAIN call'.deprecated :
                     call'.deprecated[k].last_seen < now - DeprecationDays
              /\ run.learn => endpoints' = endpoints /\ patterns' = patterns
              /\ Len(analysis_history') = Len(analysis_history) + 1
              /\ call'.knowledge_stats = get_stats(Db')
              /\ call'.knowledge_stats.total_analyses = Len(analysis_history')
              /\ call'.knowledge_stats.total_endpoints = Len(endpoints')
              /\ call'.knowledge_stats.total_patterns = Len(patterns')]_vars

\* the report of a run that observed an endpoint last seen more than 30 days
\* before and created another: the first is on the deprecated list, with its
\* old last_seen, while its stored row was seen now; the statistics count both
\* endpoints and the run
C24_Witness ==
    /\ call.op = "report"
    /\ run.learn
    /\ \E k \in DOMAIN call.deprecated : \E i, j \in DOMAIN endpoints :
         /\ endpoints[i].path = call.deprecated[k].path
         /\ \E c \in DOMAIN run.enriched_endpoints :
                run.enriched_endpoints[c].path = endpoints[i].path
         /\ call.deprecated[k].last_seen < now - DeprecationDays
         /\ endpoints[i].last_seen = now
         /\ endpoints[j].first_discovered = now
    /\ call.knowledge_stats.total_endpoints = Len(endpoints)
    /\ call.knowledge_stats.total_analyses = Len(analysis_history)
    /\ analysis_history[Len(analysis_history)].analyzed_at = now

\* C25: analyze_har with learn=False leaves the patterns and the endpoints of
\* the store as they are; with either value of learn it appends exactly one
\* row to analysis_history, for its capture, and keeps the rows before it.
C25_HistoryWithoutLearning ==
    [][call'.op = "analyze_har" =>
          /\ ~call'.learn => patterns' = patterns /\ endpoints' = endpoints
          /\ Len(analysis_history') = Len(analysis_history) + 1
          /\ SubSeq(analysis_history', 1, Len(analysis_history)) = analysis_history
          /\ analysis_history'[Len(analysis_history')].har_file = call'.har.file
          /\ analysis_history'[Len(analysis_history')].analyzed_at = now
          /\ analysis_history'[Len(analysis_history')].endpoints_found =
                 Len(call'.har.api_endpoints)
          /\ feedback' = feedback]_vars

\* the second run on a store that holds patterns, with learn=False, over a
\* candidate of which the store holds neither the endpoint nor the template:
\* it still holds neither, and the history has a row for each of the two runs
C25_Witness ==
    /\ call.op = "analyze_har"
    /\ ~call.learn
    /\ patterns # <<>>
    /\ \E k \in DOMAIN call.har.api_endpoints :
         /\ RowsWith(endpoints, "path", call.har.api_endpoints[k].path) = {}
         /\ RowsWith(patterns, "pattern",
                     _extract_pattern(call.har.api_endpoints[k].path)) = {}
    /\ Len(analysis_history) = 2
    /\ analysis_history[2].endpoints_found = Len(call.har.api_endpoints)

\* C26: an endpoint that an analysis run inserts is stored with deprecation
\* risk 0.1 if its enrichment confidence was > 0.8, else 0.3; no call changes
\* the deprecation risk (or the place) of a stored endpoint; so every list
\* that detect_deprecations can return after a call is in an order that the
\* risks stored before the call allow.
C26_RiskFixedAtInsertion ==
    [][/\ \A i \in DOMAIN endpoints :
              /\ i \in DOMAIN endpoints'
              /\ endpoints'[i].path = endpoints[i].path
              /\ endpoints'[i].deprecation_risk = endpoints[i].deprecation_risk
       /\ call'.op = "analyze_har" =>
              \A i \in DOMAIN endpoints' \ DOMAIN endpoints :
                  \E k \in DOMAIN call'.enriched_endpoints :
                      /\ call'.enriched_endpoints[k].path = endpoints'[i].path
                      /\ endpoints'[i].deprecation_risk =
                             IF call'.enriched_endpoints[k].confidence > 80
                             THEN 10 ELSE 30
       /\ \A d \in DaysInputs :
              \A q \in detect_deprecations(endpoints', now', d) :
                  \A a, b \in DOMAIN q :
                      a < b =>
                          \A i \in RowsWith(endpoints, "path", q[a].path) :
                              \A j \in RowsWith(endpoints, "path", q[b].path) :
                                  RiskDescending(endpoints[i], endpoints[j])]_vars

\* feedback has taken an endpoint stored with risk 0.1 to a confidence of 0.8
\* or less, or an endpoint stored with risk 0.3 to a confidence over 0.8,
\* while the store holds another endpoint with the other risk
C26_Witness ==
    /\ call.op = "add_feedback"
    /\ \E i, j \in DOMAIN endpoints :
         /\ endpoints[i].path = call.endpoint_path
         /\ \/ endpoints[i].deprecation_risk = 10 /\ endpoints[i].confidence <= 80
            \/ endpoints[i].deprecation_risk = 30 /\ endpoints[i].confidence > 80
         /\ endpoints[j].deprecation_risk # endpoints[i].deprecation_risk

====
